---- MODULE Spec2Model ----
(***************************************************************************)
(* GitHub Activity Reports plugin (server/plugin.go, configuration.go):    *)
(* the weekly stats handler, its week cache in the plugin KV store, the    *)
(* week arithmetic and the merge of per-week records into the response.    *)
(*                                                                         *)
(* Strings are TLA+ strings; a character is a string of length 1.  Dates   *)
(* are day numbers counted from 1970-01-01 (UTC); the clock of the model   *)
(* has a resolution of one day.                                            *)
(***************************************************************************)
EXTENDS Integers, Sequences, FiniteSets, TLC

(***************************************************************************)
(* Strings: the library functions the handlers call.                       *)
(***************************************************************************)

\* The characters that occur in the model, in increasing byte order.
Alphabet == " +,-/0123456789W_abcdeghstxyz"

CharAt(s, i) == SubSeq(s, i, i)

Ord(c) == CHOOSE i \in 1..Len(Alphabet) : CharAt(Alphabet, i) = c

\* Go's <= on strings: bytewise lexicographic order.
RECURSIVE StrLeqFrom(_, _, _)
StrLeqFrom(a, b, i) ==
    IF i > Len(a) THEN TRUE
    ELSE IF i > Len(b) THEN FALSE
    ELSE IF CharAt(a, i) = CharAt(b, i) THEN StrLeqFrom(a, b, i + 1)
    ELSE Ord(CharAt(a, i)) < Ord(CharAt(b, i))

StrLeq(a, b) == StrLeqFrom(a, b, 1)

\* strings.Index(s, c) for a one-character c, 0-based; -1 when absent.
RECURSIVE IndexFrom(_, _, _)
IndexFrom(s, c, i) ==
    IF i > Len(s) THEN -1
    ELSE IF CharAt(s, i) = c THEN i - 1
    ELSE IndexFrom(s, c, i + 1)

StringsIndex(s, c) == IndexFrom(s, c, 1)

\* strings.ReplaceAll(s, old, new) for one-character old and new.
RECURSIVE StringsReplaceAll(_, _, _)
StringsReplaceAll(s, old, new) ==
    IF Len(s) = 0 THEN ""
    ELSE (IF Head(s) = old THEN new ELSE Head(s))
             \o StringsReplaceAll(SubSeq(s, 2, Len(s)), old, new)

\* strings.TrimSpace(s); the only white space of the model is " ".
RECURSIVE TrimLeft(_)
TrimLeft(s) ==
    IF Len(s) > 0 /\ Head(s) = " " THEN TrimLeft(SubSeq(s, 2, Len(s))) ELSE s

RECURSIVE TrimRight(_)
TrimRight(s) ==
    IF Len(s) > 0 /\ CharAt(s, Len(s)) = " "
    THEN TrimRight(SubSeq(s, 1, Len(s) - 1)) ELSE s

StringsTrimSpace(s) == TrimRight(TrimLeft(s))

\* strings.Split(s, sep) for a one-character sep: always at least one field.
RECURSIVE StringsSplit(_, _)
StringsSplit(s, sep) ==
    LET i == StringsIndex(s, sep)
    IN  IF i < 0 THEN <<s>>
        ELSE <<SubSeq(s, 1, i)>> \o StringsSplit(SubSeq(s, i + 2, Len(s)), sep)

(***************************************************************************)
(* fmt.Sprintf("%d-W%02d", year, week) and fmt.Sscanf(s, "%d-W%d", ...).   *)
(***************************************************************************)
Digits == "0123456789"

IsDigit(c) == \E i \in 1..10 : CharAt(Digits, i) = c

DigitVal(c) == (CHOOSE i \in 1..10 : CharAt(Digits, i) = c) - 1

RECURSIVE NatToStr(_)
NatToStr(n) ==
    IF n < 10 THEN CharAt(Digits, n + 1)
    ELSE NatToStr(n \div 10) \o CharAt(Digits, (n % 10) + 1)

\* %d
FmtD(n) == IF n < 0 THEN "-" \o NatToStr(-n) ELSE NatToStr(n)

\* %02d: the sign counts in the width, zeros pad after the sign.
FmtD02(n) == IF n >= 0 /\ n < 10 THEN "0" \o NatToStr(n) ELSE FmtD(n)

FormatWeek(year, wn) == FmtD(year) \o "-W" \o FmtD02(wn)

\* The end (1-based, exclusive) of the run of digits of s that starts at i.
RECURSIVE DigitsEnd(_, _)
DigitsEnd(s, i) ==
    IF i <= Len(s) /\ IsDigit(CharAt(s, i)) THEN DigitsEnd(s, i + 1) ELSE i

RECURSIVE StrToNat(_)
StrToNat(s) ==
    IF Len(s) = 0 THEN 0
    ELSE 10 * StrToNat(SubSeq(s, 1, Len(s) - 1)) + DigitVal(CharAt(s, Len(s)))

RECURSIVE SkipSpace(_, _)
SkipSpace(s, i) ==
    IF i <= Len(s) /\ CharAt(s, i) = " " THEN SkipSpace(s, i + 1) ELSE i

\* The %d verb at position i of s: leading space skipped, an optional sign,
\* then at least one digit.  ok = FALSE leaves the operand unset.
ScanInt(s, i) ==
    LET j == SkipSpace(s, i)
        neg == j <= Len(s) /\ CharAt(s, j) = "-"
        k == IF j <= Len(s) /\ CharAt(s, j) \in {"-", "+"} THEN j + 1 ELSE j
        e == DigitsEnd(s, k)
        v == StrToNat(SubSeq(s, k, e - 1))
    IN  [ok |-> e > k, val |-> IF neg THEN -v ELSE v, next |-> e]

\* fmt.Sscanf(s, "%d-W%d", &year, &wn) on variables declared as zero: an
\* operand the scan does not reach keeps the value 0.
ScanWeek(s) ==
    LET a == ScanInt(s, 1)
        lit == a.ok /\ a.next + 1 <= Len(s) /\ SubSeq(s, a.next, a.next + 1) = "-W"
        b == ScanInt(s, a.next + 2)
    IN  [year |-> IF a.ok THEN a.val ELSE 0,
         wn   |-> IF lit /\ b.ok THEN b.val ELSE 0]

(***************************************************************************)
(* Calendar: package time on day numbers.                                  *)
(***************************************************************************)
LeapsThrough(y) == (y \div 4) - (y \div 100) + (y \div 400)

\* time.Date(year, 1, 1, 0, 0, 0, 0, time.UTC) as a day number.
Jan1(year) == 365 * (year - 1970) + LeapsThrough(year - 1) - LeapsThrough(1969)

\* time.Date(year, 12, 31, ...)
Dec31(year) == Jan1(year + 1) - 1

\* Time.Weekday(): Sunday = 0 ... Saturday = 6; 1970-01-01 was a Thursday.
Weekday(d) == (d + 4) % 7

YearOfDay(d) ==
    LET a == d \div 365
        b == d \div 366
        lo == 1970 + (IF a < b THEN a ELSE b) - 1
        hi == 1970 + (IF a < b THEN b ELSE a) + 1
    IN  CHOOSE y \in lo..hi : Jan1(y) <= d /\ d < Jan1(y + 1)

\* Time.ISOWeek(): the year and week of the Thursday of d's Monday-based week.
ISOWeek(d) ==
    LET off == 4 - Weekday(d)
        thu == d + (IF off = 4 THEN -3 ELSE off)
        y   == YearOfDay(thu)
    IN  [year |-> y, week |-> ((thu - Jan1(y)) \div 7) + 1]

(***************************************************************************)
(* Week arithmetic of plugin.go.                                           *)
(***************************************************************************)

nextWeekOf52(week) ==
    IF ScanWeek(week).wn + 1 > 52
    THEN FormatWeek(ScanWeek(week).year + 1, 1)
    ELSE FormatWeek(ScanWeek(week).year, ScanWeek(week).wn + 1)

\* nextWeek: the label after week; the year has 53 weeks when its Dec 31
\* lies in ISO week 53, else 52.
nextWeek(week) ==
    LET p        == ScanWeek(week)
        wn       == p.wn + 1
        lastWeek == IF ISOWeek(Dec31(p.year)).week = 53 THEN 53 ELSE 52
    IN  IF wn > lastWeek THEN FormatWeek(p.year + 1, 1)
        ELSE FormatWeek(p.year, wn)

\* getWeeksInRange: start, nextWeek(start), ... while the label is <= end.
RECURSIVE getWeeksInRange(_, _)
getWeeksInRange(start, end) ==
    IF StrLeq(start, end)
    THEN <<start>> \o getWeeksInRange(nextWeek(start), end)
    ELSE <<>>

\* The days from firstDay to the Monday on or before it (lines 478-482),
\* for offset = Monday - firstDay.Weekday().
MondayOffset(offset) == IF offset > 0 THEN offset - 7 ELSE offset

\* firstMonday of weekToDate for the year whose Jan 1 is firstDay.
FirstMonday(firstDay) == firstDay + MondayOffset(1 - Weekday(firstDay))

\* The rest of weekToDate for the operands Sscanf has set.
WeekStart(year, week) == FirstMonday(Jan1(year)) + (week - 1) * 7

\* weekToDate: the Monday on or before Jan 1 of the label's year, plus
\* (week - 1) * 7 days.
weekToDate(isoWeek) == WeekStart(ScanWeek(isoWeek).year, ScanWeek(isoWeek).wn)

\* currentWeekStr of handleGetStats at day d.
CurrentWeekStr(d) == FormatWeek(ISOWeek(d).year, ISOWeek(d).week)

\* The default week_start of handleGetStats at day d.
DefaultWeekStart(d) == FormatWeek(ISOWeek(d).year, ISOWeek(d).week - 4)

(***************************************************************************)
(* Bounds of the model.                                                    *)
(***************************************************************************)
MaxRequests == 2    \* stats requests served in one behaviour
MaxTicks    == 1    \* days the clock advances in one behaviour
MaxReloads  == 1    \* configuration reloads in one behaviour
MaxFailures == 1    \* upstream calls that fail in transit in one behaviour
MaxRepos    == 2    \* entries of a permuted repository list
MaxUsers    == 4    \* entries of a users list that is sorted
MaxCommits  == 3    \* commits of one entry of such a list
MaxIdLen    == 4    \* characters of a repository identifier
MaxDayOffset == 60  \* days before and after Jan 1 of the clock of a default range
MaxYearSpan == 8    \* years of week labels before 2027
MaxWeekDistance == 6  \* weeks from week_start to week_end of a range
MaxIterations == 8  \* iterations of the loop of getWeeksInRange that are followed
MaxLabelLen == 3    \* characters of a week parameter that is no label
MaxListed == 4      \* commits upstream lists for one repository

\* The goroutines that serve requests concurrently.
Slots == {1, 2}

\* The slot that serves the n-th request: the slots take turns.
SlotOf(n) == ((n - 1) % Cardinality(Slots)) + 1

Nil == [nil |-> TRUE]

(***************************************************************************)
(* The environment: the clock, the hosting API and the configurations an   *)
(* administrator may save.                                                 *)
(***************************************************************************)

\* The day the plugin is activated: Sunday 2027-01-10, the last day of ISO
\* week 2027-W01.
StartDay == Jan1(2027) + 9

\* The commits of the upstream repositories: author login ("" when the
\* commit has no GitHub author) and commit day.  A commit is listed from the
\* day it is made.
UpstreamCommits ==
    { [sha |-> "c1", repo |-> "a/x", login |-> "a", day |-> Jan1(2027) - 3],
      [sha |-> "c2", repo |-> "a/x", login |-> "a", day |-> Jan1(2027) - 2],
      [sha |-> "c3", repo |-> "a/x", login |-> "b", day |-> Jan1(2027) + 4],
      [sha |-> "c4", repo |-> "a/x", login |-> "",  day |-> Jan1(2027) + 5],
      [sha |-> "c5", repo |-> "a/x", login |-> "b", day |-> Jan1(2027) + 10],
      [sha |-> "c6", repo |-> "b/x", login |-> "a", day |-> Jan1(2027) - 10],
      [sha |-> "c7", repo |-> "b/x", login |-> "b", day |-> Jan1(2027) - 3],
      [sha |-> "c8", repo |-> "b/y", login |-> "a", day |-> Jan1(2027) - 3],
      [sha |-> "c9", repo |-> "b/y", login |-> "b", day |-> Jan1(2027) - 10],
      [sha |-> "c10", repo |-> "a/x_y", login |-> "a", day |-> Jan1(2027) - 3] }

UpstreamRepos == {c.repo : c \in UpstreamCommits}

ValidToken == "t"

\* encoding/json on the values the plugin stores: the text of a value.
JsonMarshal(v) == [json |-> v]

JsonUnmarshal(data) == data.json

EmptyMap == [l \in {} |-> 0]

\* The empty string, in a field that otherwise holds a JSON text.
NoText == [empty |-> TRUE]

\* The configurations LoadPluginConfiguration may deliver.
Configs ==
    { [GitHubToken |-> "", Repositories |-> "a/x", UserMappings |-> NoText],
      [GitHubToken |-> "z", Repositories |-> "a/x", UserMappings |-> NoText],
      [GitHubToken |-> ValidToken, Repositories |-> "a/x, b/y",
       UserMappings |-> JsonMarshal([l \in {"a", "b"} |->
                                        IF l = "a" THEN "u1" ELSE "u9"])],
      [GitHubToken |-> ValidToken, Repositories |-> "a/x,,b/x",
       UserMappings |-> NoText] }

\* The week_start / week_end query parameters a client sends.
RequestRanges ==
    { <<"", "">>, <<"2026-W53", "2026-W53">>, <<"2027-W01", "2027-W02">>,
      <<"2027-W03", "2027-W02">> }

\* The query parameters of the requests that are served concurrently.
ConcurrentRanges == { <<"2026-W53", "2026-W53">> }

\* The repository identifiers of the lists whose order is permuted.
MergeRepos == {"a/x", "b/x", "b/y", "a/x_y", "a_x/y"}

\* The week_start / week_end of the requests whose cells are permuted.
MergeRanges == { <<"2026-W53", "2026-W53">>, <<"2026-W53", "2027-W01">> }

\* The local user directory behind p.API.GetUser.
MMUsers ==
    [u \in {"u1", "u2"} |->
        IF u = "u1"
        THEN [Username |-> "ann", FirstName |-> "Ann", LastName |-> "", Nickname |-> ""]
        ELSE [Username |-> "bob", FirstName |-> "", LastName |-> "", Nickname |-> "bobby"]]

(***************************************************************************)
(* State.                                                                  *)
(***************************************************************************)
VARIABLES
    now,            \* the clock: time.Now() as a day number
    configuration,  \* p.configuration: Nil or a configuration
    kv,             \* the plugin KV store: key -> stored bytes
    pc,             \* per slot: "idle", "loop", "put", "respond", "done"
    rq,             \* per slot: the locals of the running handleGetStats
    resp,           \* per slot: the response written, Nil before
    log,            \* per slot: what each getWeeklyStats call of the request did
    started,        \* requests started so far
    ticks,          \* clock ticks so far
    reloads,        \* configuration reloads so far
    failures,       \* upstream transport failures so far
    fn              \* the operands and result of a function studied on its own

vars == <<now, configuration, kv, pc, rq, resp, log, started, ticks, reloads,
          failures, fn>>

(***************************************************************************)
(* getConfiguration and the helpers of handleGetStats.                     *)
(***************************************************************************)

\* getConfiguration: an empty configuration while none is loaded.
getConfiguration ==
    IF configuration = Nil
    THEN [GitHubToken |-> "", Repositories |-> "", UserMappings |-> NoText]
    ELSE configuration

TokenMissingNever(config) == FALSE

\* The test of line 228.
TokenMissing(config) == config.GitHubToken = ""

\* The mappings of a handler: empty unless UserMappings holds a JSON object.
ParseMappings(userMappings) ==
    IF userMappings = NoText THEN EmptyMap ELSE JsonUnmarshal(userMappings)

\* m[k] of a Go map: the zero value when k is absent.
MapGet(m, k, zero) == IF k \in DOMAIN m THEN m[k] ELSE zero

\* shortRepo: the identifier after its first "/", the identifier without one.
ShortRepo(repo) ==
    LET idx == StringsIndex(repo, "/")
    IN  IF idx >= 0 THEN SubSeq(repo, idx + 2, Len(repo)) ELSE repo

\* cacheKey of getWeeklyStats.
CacheKey(repo, week) ==
    "gh_stats_" \o StringsReplaceAll(repo, "/", "_") \o "_" \o week

\* isCurrentWeek as handleGetStats passes it (line 275).
IsCurrentWeek(week, currentWeekStr) == week = currentWeekStr

TryCacheAlways(isCurrentWeek) == TRUE

TryCacheNever(isCurrentWeek) == FALSE

\* The cache is tried for past weeks (line 386).
TryCache(isCurrentWeek) == ~isCurrentWeek

CacheHitNever(data) == FALSE

\* The cache answered (lines 387-389).
CacheHit(data) == data # Nil

ShouldCacheEmpty(isCurrentWeek, stats) == ~isCurrentWeek

\* "Cache if not current week" (line 402).
ShouldCache(isCurrentWeek, stats) ==
    ~isCurrentWeek /\ Cardinality(DOMAIN stats.Users) > 0

\* p.API.KVGet on the store: the stored bytes, Nil for a key never set.
KVGetIn(store, key) == IF key \in DOMAIN store THEN store[key] ELSE Nil

\* p.API.KVGet
KVGet(key) == KVGetIn(kv, key)

\* p.API.KVSet
KVSet(store, key, data) ==
    [k \in DOMAIN store \cup {key} |-> IF k = key THEN data ELSE store[k]]

\* The commits GitHub lists for repo with since = start, until = start + 7
\* days, asked on day today.
ListCommits(repo, start, today) ==
    {c \in UpstreamCommits :
        c.repo = repo /\ start <= c.day /\ c.day < start + 7 /\ c.day <= today}

\* fetchWeekFromGitHub after a 200 answer: one count per commit with an
\* author login; added and removed stay zero.
CountCommits(repo, week, commits, today) ==
    LET logins == {c.login : c \in {d \in commits : d.login # ""}}
    IN  [Week |-> week, Repo |-> repo,
         Users |-> [l \in logins |->
                      [Commits |-> Cardinality({c \in commits : c.login = l}),
                       Added |-> 0, Removed |-> 0]],
         FetchedAt |-> today]

\* fetchWeekFromGitHub: Nil on a transport error or a status other than 200.
fetchWeekFromGitHub(repo, week, token, today, transportOk) ==
    IF ~transportOk \/ token # ValidToken \/ repo \notin UpstreamRepos
    THEN Nil
    ELSE CountCommits(repo, week, ListCommits(repo, weekToDate(week), today), today)

\* getWeeklyStats (lines 382-409) run without another request in between:
\* the record it returns and the store it leaves.
getWeeklyStats(store, repo, week, isCurrentWeek, token, today, transportOk) ==
    LET cacheKey == CacheKey(repo, week)
        data     == IF TryCache(isCurrentWeek) THEN KVGetIn(store, cacheKey) ELSE Nil
    IN  IF TryCache(isCurrentWeek) /\ CacheHit(data)
        THEN [stats |-> JsonUnmarshal(data), store |-> store]
        ELSE LET stats == fetchWeekFromGitHub(repo, week, token, today, transportOk)
             IN  [stats |-> stats,
                  store |-> IF stats # Nil /\ ShouldCache(isCurrentWeek, stats)
                            THEN KVSet(store, cacheKey, JsonMarshal(stats))
                            ELSE store]

\* The accumulators of handleGetStats before the loop.
EmptyAcc ==
    [userCommits |-> EmptyMap, userAdded |-> EmptyMap, userRemoved |-> EmptyMap,
     userByRepo |-> EmptyMap, activeRepos |-> {}]

HasCommitsNever(users) == FALSE

\* Some contributor of the record has stat.Commits > 0 (lines 281-283).
HasCommits(users) == \E l \in DOMAIN users : users[l].Commits > 0

MergeWeekStatsOverwrite(acc, shortRepo, users) ==
    LET ls == DOMAIN acc.userCommits \cup DOMAIN users
        set(m, field) ==
            [l \in ls |-> IF l \in DOMAIN users THEN users[l][field]
                          ELSE MapGet(m, l, 0)]
    IN  [userCommits |-> set(acc.userCommits, "Commits"),
         userAdded   |-> set(acc.userAdded, "Added"),
         userRemoved |-> set(acc.userRemoved, "Removed"),
         userByRepo  |-> [l \in ls |->
                            IF l \in DOMAIN users
                            THEN [r \in {shortRepo} |-> users[l].Commits]
                            ELSE MapGet(acc.userByRepo, l, EmptyMap)],
         activeRepos |-> acc.activeRepos \cup {shortRepo}]

\* The body of the loop over weekStats.Users: add one record to the sums.
MergeWeekStats(acc, shortRepo, users) ==
    LET ls == DOMAIN acc.userCommits \cup DOMAIN users
        add(m, field) ==
            [l \in ls |-> MapGet(m, l, 0)
                            + (IF l \in DOMAIN users THEN users[l][field] ELSE 0)]
        byRepo(l) ==
            LET old == MapGet(acc.userByRepo, l, EmptyMap)
            IN  IF l \in DOMAIN users
                THEN [r \in DOMAIN old \cup {shortRepo} |->
                        IF r = shortRepo
                        THEN MapGet(old, r, 0) + users[l].Commits
                        ELSE old[r]]
                ELSE old
    IN  [userCommits |-> add(acc.userCommits, "Commits"),
         userAdded   |-> add(acc.userAdded, "Added"),
         userRemoved |-> add(acc.userRemoved, "Removed"),
         userByRepo  |-> [l \in ls |-> byRepo(l)],
         activeRepos |-> acc.activeRepos \cup
                           (IF HasCommits(users) THEN {shortRepo} ELSE {})]

\* The position (i, j) of the next loop iteration at or after (i, j): entries
\* of the repository list that are empty after trimming are skipped.
RECURSIVE NextPos(_, _, _, _)
NextPos(repos, weeks, i, j) ==
    IF i > Len(repos) THEN [i |-> i, j |-> 1]
    ELSE IF StringsTrimSpace(repos[i]) = "" \/ j > Len(weeks)
         THEN NextPos(repos, weeks, i + 1, 1)
         ELSE [i |-> i, j |-> j]

\* The identity of one contributor (lines 301-314).
ResolveUserIn(users, ghLogin, mappings) ==
    LET mmUserID == MapGet(mappings, ghLogin, "")
        found    == mmUserID # "" /\ mmUserID \in DOMAIN users
        user     == users[mmUserID]
    IN  [MMUserID   |-> mmUserID,
         MMUsername |-> IF found THEN user.Username ELSE "",
         Name       |-> IF ~found THEN ghLogin
                        ELSE IF user.FirstName # "" \/ user.LastName # ""
                             THEN StringsTrimSpace(user.FirstName \o " " \o user.LastName)
                        ELSE IF user.Nickname # "" THEN user.Nickname
                        ELSE ghLogin]

\* Lines 300-313 with the users GetUser finds on this server.
ResolveUser(ghLogin, mappings) == ResolveUserIn(MMUsers, ghLogin, mappings)

\* The users list before sorting, for one iteration order of userCommits.
\* GhLogin is the key the entry was built from; it is not part of the JSON.
BuildUsers(acc, mappings, order) ==
    LET entry(l) ==
            LET id == ResolveUser(l, mappings)
            IN  [GhLogin |-> l,
                 MMUserID |-> id.MMUserID, MMUsername |-> id.MMUsername,
                 Name |-> id.Name, Commits |-> acc.userCommits[l],
                 Added |-> acc.userAdded[l], Removed |-> acc.userRemoved[l],
                 ByRepo |-> acc.userByRepo[l]]
        kept == SelectSeq(order, LAMBDA l : acc.userCommits[l] # 0)
    IN  [k \in 1..Len(kept) |-> entry(kept[k])]

Swap(u, i, j) == [u EXCEPT ![i] = u[j], ![j] = u[i]]

\* The inner loop of the sort, from j on, for a fixed i.
RECURSIVE SortInner(_, _, _)
SortInner(u, i, j) ==
    IF j > Len(u) THEN u
    ELSE SortInner(IF u[j].Commits > u[i].Commits THEN Swap(u, i, j) ELSE u,
                   i, j + 1)

\* The outer loop of the sort, from i on.
RECURSIVE SortOuter(_, _)
SortOuter(u, i) ==
    IF i > Len(u) THEN u ELSE SortOuter(SortInner(u, i, i + 1), i + 1)

SortUsersUnsorted(u) == u

\* "Sort by commits desc" (lines 327-334).
SortUsers(u) == SortOuter(u, 1)

\* The orders in which Go may iterate a map with key set S.
Orders(S) ==
    {o \in [1..Cardinality(S) -> S] : \A a, b \in DOMAIN o : a # b => o[a] # o[b]}

(***************************************************************************)
(* Initial state and actions.                                              *)
(***************************************************************************)
NoRq == [idle |-> TRUE]

\* The plugin after OnActivate: nothing loaded, nothing stored, no request.
InitRest ==
    /\ now = StartDay
    /\ configuration = Nil
    /\ kv = EmptyMap
    /\ pc = [r \in Slots |-> "idle"]
    /\ rq = [r \in Slots |-> NoRq]
    /\ resp = [r \in Slots |-> Nil]
    /\ log = [r \in Slots |-> <<>>]
    /\ started = 0
    /\ ticks = 0
    /\ reloads = 0
    /\ failures = 0

\* No function is under study on its own.
Init == InitRest /\ fn = Nil

\* No request is being served.
Quiet == \A s \in Slots : pc[s] \in {"idle", "done"}

\* Every running request carries a query of ConcurrentRanges.
OnlyConcurrentRanges ==
    \A s \in Slots :
        IF pc[s] \in {"idle", "done"} THEN TRUE
        ELSE <<rq[s].weekStart, rq[s].weekEnd>> \in ConcurrentRanges

\* Bound of the exploration: a request is served while another one is still
\* running only when both carry a query of ConcurrentRanges; every other
\* request is served alone.
MayStart(range) ==
    IF Quiet THEN TRUE ELSE range \in ConcurrentRanges /\ OnlyConcurrentRanges

\* The clock advances by one day.  Bound of the exploration: midnight falls
\* between requests or inside requests with a query of ConcurrentRanges.
Tick ==
    /\ ticks < MaxTicks
    /\ OnlyConcurrentRanges
    /\ now' = now + 1
    /\ ticks' = ticks + 1
    /\ UNCHANGED <<configuration, kv, pc, rq, resp, log, started, reloads, failures, fn>>

\* OnConfigurationChange: a freshly loaded configuration replaces the old one.
OnConfigurationChange ==
    /\ reloads < MaxReloads
    /\ \E c \in Configs : configuration' = c
    /\ reloads' = reloads + 1
    /\ UNCHANGED <<now, kv, pc, rq, resp, log, started, ticks, failures, fn>>

\* handleGetStats up to the loop (lines 226-261), for slot r and the query
\* parameters range = <<week_start, week_end>>.
HandleGetStats(r, range) ==
    /\ pc[r] \in {"idle", "done"}
    /\ r = SlotOf(started + 1)
    /\ MayStart(range)
    /\ started < MaxRequests
    /\ started' = started + 1
    /\ log' = [log EXCEPT ![r] = <<>>]
    /\ LET config == getConfiguration
       IN  IF TokenMissing(config)
           THEN /\ resp' = [resp EXCEPT ![r] = [status |-> 400]]
                /\ pc' = [pc EXCEPT ![r] = "done"]
                /\ rq' = [rq EXCEPT ![r] = NoRq]
           ELSE LET currentWeekStr == CurrentWeekStr(now)
                    dflt      == range[1] = "" \/ range[2] = ""
                    weekStart == IF dflt THEN DefaultWeekStart(now) ELSE range[1]
                    weekEnd   == IF dflt THEN currentWeekStr ELSE range[2]
                    repos     == StringsSplit(config.Repositories, ",")
                    weeks     == getWeeksInRange(weekStart, weekEnd)
                    pos       == NextPos(repos, weeks, 1, 1)
                IN  /\ rq' = [rq EXCEPT ![r] =
                              [weekStart |-> weekStart, weekEnd |-> weekEnd,
                               token |-> config.GitHubToken,
                               mappings |-> ParseMappings(config.UserMappings),
                               currentWeekStr |-> currentWeekStr,
                               repos |-> repos, weeks |-> weeks,
                               i |-> pos.i, j |-> pos.j,
                               acc |-> EmptyAcc, pending |-> Nil,
                               keys0 |-> DOMAIN kv]]
                    /\ pc' = [pc EXCEPT ![r] =
                              IF pos.i > Len(repos) THEN "respond" ELSE "loop"]
                    /\ resp' = [resp EXCEPT ![r] = Nil]
    /\ UNCHANGED <<now, configuration, kv, ticks, reloads, failures, fn>>

\* The loop of handleGetStats goes to the iteration pos, after merging the
\* record stats the call returned ("if weekStats == nil { continue }").
MoveTo(r, stats, pos) ==
    LET q     == rq[r]
        repo  == StringsTrimSpace(q.repos[q.i])
        acc2  == IF stats = Nil THEN q.acc
                 ELSE MergeWeekStats(q.acc, ShortRepo(repo), stats.Users)
    IN  /\ rq' = [rq EXCEPT ![r] = [q EXCEPT !.i = pos.i, !.j = pos.j,
                                            !.acc = acc2, !.pending = Nil]]
        /\ pc' = [pc EXCEPT ![r] =
                    IF pos.i > Len(q.repos) THEN "respond" ELSE "loop"]

AdvanceOrAbort(r, stats) ==
    MoveTo(r, stats,
           IF stats = Nil THEN [i |-> Len(rq[r].repos) + 1, j |-> 1]
           ELSE NextPos(rq[r].repos, rq[r].weeks, rq[r].i, rq[r].j + 1))

\* The loop of handleGetStats moves on from the iteration (i, j).
Advance(r, stats) ==
    MoveTo(r, stats, NextPos(rq[r].repos, rq[r].weeks, rq[r].i, rq[r].j + 1))

\* One call of getWeeklyStats (lines 382-409) up to its KVSet, with the
\* merge of its result (lines 276-291) when it returns without a KVSet.
GetWeeklyStats(r) ==
    /\ pc[r] = "loop"
    /\ LET q      == rq[r]
           repo   == StringsTrimSpace(q.repos[q.i])
           week   == q.weeks[q.j]
           isCurrentWeek == IsCurrentWeek(week, q.currentWeekStr)
           cacheKey == CacheKey(repo, week)
           tried  == TryCache(isCurrentWeek)
           data   == IF tried THEN KVGet(cacheKey) ELSE Nil
           hit    == tried /\ CacheHit(data)
           entry  == [repo |-> repo, week |-> week,
                      get |-> tried, hit |-> hit,
                      fetch |-> FALSE, put |-> FALSE, stats |-> Nil]
       IN  IF hit
           THEN /\ Advance(r, JsonUnmarshal(data))
                /\ log' = [log EXCEPT ![r] =
                            Append(@, [entry EXCEPT !.stats = JsonUnmarshal(data)])]
                /\ UNCHANGED failures
           ELSE \E transportOk \in BOOLEAN :
                LET stats == fetchWeekFromGitHub(repo, week, q.token, now, transportOk)
                IN  /\ transportOk \/ failures < MaxFailures
                    /\ failures' = IF transportOk THEN failures ELSE failures + 1
                    /\ log' = [log EXCEPT ![r] =
                                Append(@, [entry EXCEPT !.fetch = TRUE, !.stats = stats])]
                    /\ IF stats # Nil /\ ShouldCache(isCurrentWeek, stats)
                       THEN /\ rq' = [rq EXCEPT ![r].pending = stats]
                            /\ pc' = [pc EXCEPT ![r] = "put"]
                       ELSE Advance(r, stats)
    /\ UNCHANGED <<now, configuration, kv, resp, started, ticks, reloads, fn>>

\* The KVSet of getWeeklyStats (lines 403-405), its return and the merge of
\* the record.
KVSetStats(r) ==
    /\ pc[r] = "put"
    /\ LET q    == rq[r]
           repo == StringsTrimSpace(q.repos[q.i])
           week == q.weeks[q.j]
       IN  /\ kv' = KVSet(kv, CacheKey(repo, week), JsonMarshal(q.pending))
           /\ log' = [log EXCEPT ![r][Len(log[r])].put = TRUE]
           /\ Advance(r, q.pending)
    /\ UNCHANGED <<now, configuration, resp, started, ticks, reloads, failures, fn>>

\* The rest of handleGetStats (lines 295-349): the users list in some map
\* order, sorted, and the active repositories in some map order.
Respond(r) ==
    /\ pc[r] = "respond"
    /\ \E order \in Orders(DOMAIN rq[r].acc.userCommits),
          reposList \in Orders(rq[r].acc.activeRepos) :
          resp' = [resp EXCEPT ![r] =
                    [status |-> 200,
                     users |-> SortUsers(BuildUsers(rq[r].acc, rq[r].mappings, order)),
                     repos |-> reposList,
                     week_start |-> rq[r].weekStart,
                     week_end |-> rq[r].weekEnd,
                     last_updated |-> now]]
    /\ pc' = [pc EXCEPT ![r] = "done"]
    /\ UNCHANGED <<now, configuration, kv, rq, log, started, ticks, reloads, failures, fn>>

Next ==
    \/ Tick
    \/ OnConfigurationChange
    \/ \E r \in Slots, range \in RequestRanges : HandleGetStats(r, range)
    \/ \E r \in Slots : GetWeeklyStats(r)
    \/ \E r \in Slots : KVSetStats(r)
    \/ \E r \in Slots : Respond(r)

Spec == Init /\ [][Next]_vars

(***************************************************************************)
(* The loop of handleGetStats as a function of the repository list and the *)
(* week sequence: one request served alone, from an empty store, next to   *)
(* the same request with both lists permuted.                              *)
(***************************************************************************)

\* The sequences over S of length 1 to n.
SeqsUpTo(S, n) == UNION {[1..m -> S] : m \in 1..n}

\* The sequence s in the order p.
Permuted(s, p) == [k \in 1..Len(s) |-> s[p[k]]]

\* The loop at its first iteration.
StartRun(repos, weeks) ==
    LET pos == NextPos(repos, weeks, 1, 1)
    IN  [repos |-> repos, weeks |-> weeks, i |-> pos.i, j |-> pos.j,
         store |-> EmptyMap, acc |-> EmptyAcc, res |-> Nil]

RunDone(run) == run.i > Len(run.repos)

\* The call of getWeeklyStats of one iteration (lines 264-275) on day today:
\* what it returns is kept in res.
CallWeeklyStats(run, token, currentWeekStr, today) ==
    [run EXCEPT !.res = getWeeklyStats(run.store,
                                       StringsTrimSpace(run.repos[run.i]),
                                       run.weeks[run.j],
                                       IsCurrentWeek(run.weeks[run.j], currentWeekStr),
                                       token, today, TRUE)]

\* The rest of the iteration (lines 276-292): the record is merged and the
\* loop moves on.
MergeResult(run) ==
    LET pos == NextPos(run.repos, run.weeks, run.i, run.j + 1)
    IN  [run EXCEPT !.store = run.res.store,
                    !.acc = IF run.res.stats = Nil THEN @
                            ELSE MergeWeekStats(@, ShortRepo(StringsTrimSpace(run.repos[run.i])),
                                                run.res.stats.Users),
                    !.res = Nil,
                    !.i = pos.i, !.j = pos.j]

\* The per-login totals of the response (lines 296-325).
Totals(acc) ==
    [l \in {x \in DOMAIN acc.userCommits : acc.userCommits[x] # 0} |->
        [commits |-> acc.userCommits[l], added |-> acc.userAdded[l],
         removed |-> acc.userRemoved[l], by_repo |-> acc.userByRepo[l]]]

\* The repository list and the query of a request.
InitMerge ==
    /\ InitRest
    /\ \E repos \in SeqsUpTo(MergeRepos, MaxRepos), range \in MergeRanges :
         fn = [op |-> "merge", at |-> "weeks", repos |-> repos, range |-> range]

\* The week sequence of the request (line 261).
ListWeeks ==
    /\ fn.at = "weeks"
    /\ fn' = [op |-> "merge", at |-> "start", repos |-> fn.repos,
              weeks |-> getWeeksInRange(fn.range[1], fn.range[2])]
    /\ UNCHANGED <<now, configuration, kv, pc, rq, resp, log, started, ticks,
                   reloads, failures>>

\* The request and the same request with its lists permuted are both at
\* their first iteration.
StartMerge ==
    /\ fn.at = "start"
    /\ \E p \in Orders(1..Len(fn.repos)), w \in Orders(1..Len(fn.weeks)) :
          fn' = [op |-> "merge", at |-> "loop",
                 a |-> StartRun(fn.repos, fn.weeks),
                 b |-> StartRun(Permuted(fn.repos, p), Permuted(fn.weeks, w))]
    /\ UNCHANGED <<now, configuration, kv, pc, rq, resp, log, started, ticks,
                   reloads, failures>>

\* Both loops call getWeeklyStats for their next cell.
CallStep ==
    /\ fn.at = "loop"
    /\ ~RunDone(fn.a) /\ ~RunDone(fn.b)
    /\ fn' = [fn EXCEPT !.at = "merge",
                        !.a = CallWeeklyStats(@, ValidToken, CurrentWeekStr(now), now),
                        !.b = CallWeeklyStats(@, ValidToken, CurrentWeekStr(now), now)]
    /\ UNCHANGED <<now, configuration, kv, pc, rq, resp, log, started, ticks,
                   reloads, failures>>

\* Both loops merge what the call returned and move on.
MergeStep ==
    /\ fn.at = "merge"
    /\ fn' = [fn EXCEPT !.at = "loop", !.a = MergeResult(@), !.b = MergeResult(@)]
    /\ UNCHANGED <<now, configuration, kv, pc, rq, resp, log, started, ticks,
                   reloads, failures>>

NextMerge == ListWeeks \/ StartMerge \/ CallStep \/ MergeStep

SpecMerge == InitMerge /\ [][NextMerge]_vars

(***************************************************************************)
(* The sort of handleGetStats as a function of the users list.             *)
(***************************************************************************)

\* The users lists before the sort: up to MaxUsers contributors in map
\* order, each with 1 to MaxCommits commits.
SortInputs ==
    {<<>>} \cup
    {[k \in 1..Len(c) |-> [GhLogin |-> NatToStr(k), Commits |-> c[k]]] :
        c \in SeqsUpTo(1..MaxCommits, MaxUsers)}

InitSort ==
    /\ InitRest
    /\ \E u \in SortInputs :
         fn = [op |-> "sort", users |-> u, sorted |-> <<>>, done |-> FALSE]

\* Lines 327-334 on the list.
ApplySort ==
    /\ ~fn.done
    /\ fn' = [fn EXCEPT !.sorted = SortUsers(fn.users), !.done = TRUE]
    /\ UNCHANGED <<now, configuration, kv, pc, rq, resp, log, started, ticks,
                   reloads, failures>>

NextSort == ApplySort

SpecSort == InitSort /\ [][NextSort]_vars

(***************************************************************************)
(* Vocabulary of the properties.                                           *)
(***************************************************************************)

\* Slot r holds a request that passed the token check.
Admitted(r) == rq[r] # NoRq

\* Slot r holds a request that was answered with a summary.
Answered(r) == pc[r] = "done" /\ rq[r] # NoRq

\* The (repository, week) iterations of the loop of a request, in order.
RECURSIVE CellsFrom(_, _, _)
CellsFrom(repos, weeks, i) ==
    IF i > Len(repos) THEN <<>>
    ELSE (IF StringsTrimSpace(repos[i]) = "" THEN <<>>
          ELSE [j \in 1..Len(weeks) |-> <<StringsTrimSpace(repos[i]), weeks[j]>>])
         \o CellsFrom(repos, weeks, i + 1)

CellsOf(r) == CellsFrom(rq[r].repos, rq[r].weeks, 1)

\* The iterations the log of slot r records.
LoggedCells(r) == [k \in 1..Len(log[r]) |-> <<log[r][k].repo, log[r][k].week>>]

\* The record an iteration obtained has no contributor with commits.
NoCommits(stats) ==
    stats = Nil \/ ~\E l \in DOMAIN stats.Users : stats.Users[l].Commits > 0

\* The commits of login l in the records the iterations of lg obtained for
\* the repositories in repos.
RECURSIVE SumCommits(_, _, _)
SumCommits(lg, l, repos) ==
    IF Len(lg) = 0 THEN 0
    ELSE LET e == lg[Len(lg)]
         IN  SumCommits(SubSeq(lg, 1, Len(lg) - 1), l, repos)
             + (IF e.stats # Nil /\ e.repo \in repos /\ l \in DOMAIN e.stats.Users
                THEN e.stats.Users[l].Commits ELSE 0)

\* The repositories the request of slot r iterates over.
ReposOf(r) == {c[1] : c \in {CellsOf(r)[k] : k \in 1..Len(CellsOf(r))}} \cup
              {StringsTrimSpace(rq[r].repos[i]) : i \in 1..Len(rq[r].repos)}

Logins == {c.login : c \in UpstreamCommits} \ {""}

\* The entry of login l in the users list of the response of slot r.
UserEntries(r, l) ==
    {k \in 1..Len(resp[r].users) : resp[r].users[k].GhLogin = l}

\* Label a is before label b in (year, week) order.
WeekBefore(a, b) ==
    LET x == ScanWeek(a)
        y == ScanWeek(b)
    IN  x.year < y.year \/ (x.year = y.year /\ x.wn < y.wn)

\* Slot r takes a getWeeklyStats step.
CellStep(r) == pc[r] = "loop" /\ log'[r] # log[r]

\* The cell of the iteration slot r is at.
CellRepo(r) == StringsTrimSpace(rq[r].repos[rq[r].i])
CellWeek(r) == rq[r].weeks[rq[r].j]
CellKey(r)  == CacheKey(CellRepo(r), CellWeek(r))

\* The log entry the step of slot r appends.
NewEntry(r) == log'[r][Len(log'[r])]

(***************************************************************************)
(* C1.  An iteration whose week label is the current week of its request   *)
(* reads no cache record, writes none and issues exactly one upstream      *)
(* listing; and a request that is answered has made exactly one iteration  *)
(* for every (repository, week) of its range.                              *)
(***************************************************************************)
C1_CurrentWeekAlwaysFetched ==
    \A r \in Slots :
        Admitted(r) =>
            /\ \A k \in 1..Len(log[r]) :
                 log[r][k].week = rq[r].currentWeekStr =>
                     ~log[r][k].get /\ ~log[r][k].put /\ log[r][k].fetch
            /\ pc[r] = "done" => LoggedCells(r) = CellsOf(r)

\* A request fetched its current week although the cache held a record
\* under the key of that week.
C1_Witness ==
    \E r \in Slots :
        /\ Answered(r)
        /\ \E k \in 1..Len(log[r]) :
             /\ log[r][k].week = rq[r].currentWeekStr
             /\ log[r][k].fetch
             /\ CacheKey(log[r][k].repo, log[r][k].week) \in DOMAIN kv

C3_PutOnlyBeforeCurrentWeek ==
    \A r \in Slots :
        Admitted(r) =>
            \A k \in 1..Len(log[r]) :
                log[r][k].put => WeekBefore(log[r][k].week, rq[r].currentWeekStr)

(***************************************************************************)
(* C4.  Every stored record has a contributor with at least one commit; an *)
(* iteration whose fetch fails or yields no commits writes nothing; and an *)
(* iteration for a past week that finds no record calls upstream.          *)
(***************************************************************************)
C4_FailedOrEmptyNeverCached ==
    /\ [](\A key \in DOMAIN kv :
            \E l \in DOMAIN JsonUnmarshal(kv[key]).Users :
                JsonUnmarshal(kv[key]).Users[l].Commits >= 1)
    /\ [](\A r \in Slots : \A k \in 1..Len(log[r]) :
            log[r][k].fetch /\ NoCommits(log[r][k].stats) => ~log[r][k].put)
    /\ [][\A r \in Slots :
            CellStep(r) =>
                /\ NewEntry(r).fetch /\ NoCommits(NewEntry(r).stats)
                     => kv' = kv /\ pc'[r] # "put"
                /\ CellWeek(r) # rq[r].currentWeekStr /\ CellKey(r) \notin DOMAIN kv
                     => NewEntry(r).fetch
         ]_vars

\* The first request failed to fetch a past week, nothing is stored for it,
\* and the second request called upstream for the same cell.
C4_Witness ==
    /\ Answered(1) /\ Admitted(2)
    /\ \E k \in 1..Len(log[1]), m \in 1..Len(log[2]) :
         /\ log[1][k].fetch /\ log[1][k].stats = Nil
         /\ log[1][k].week # rq[1].currentWeekStr
         /\ log[2][m].repo = log[1][k].repo /\ log[2][m].week = log[1][k].week
         /\ log[2][m].fetch /\ log[2][m].stats # Nil

C6_NoTokenFastFail ==
    /\ [](\A r \in Slots :
            resp[r] # Nil /\ resp[r].status = 400 =>
                pc[r] = "done" /\ log[r] = <<>> /\ rq[r] = NoRq)
    /\ [][\A r \in Slots :
            (/\ started' = started + 1
             /\ r = SlotOf(started')
             /\ getConfiguration.GitHubToken = "")
            => /\ resp'[r] = [status |-> 400]
               /\ pc'[r] = "done"
               /\ log'[r] = <<>>
               /\ kv' = kv
         ]_vars

\* A request was refused with 400 under a loaded configuration without token.
C6_Witness ==
    \E r \in Slots :
        /\ resp[r] # Nil /\ resp[r].status = 400
        /\ configuration # Nil /\ configuration.GitHubToken = ""

(***************************************************************************)
(* C7.  A request one of whose upstream calls failed is still answered     *)
(* with a summary: it has made every iteration of its range, and the       *)
(* commits it returns for each login are the sum over the iterations that  *)
(* obtained a record (a failed iteration adds nothing).                    *)
(***************************************************************************)
C7_FailureIsolated ==
    \A r \in Slots :
        Answered(r) =>
            /\ resp[r].status = 200
            /\ LoggedCells(r) = CellsOf(r)
            /\ \A l \in Logins :
                 LET total == SumCommits(log[r], l, ReposOf(r))
                 IN  IF total = 0 THEN UserEntries(r, l) = {}
                     ELSE \E k \in 1..Len(resp[r].users) :
                            /\ UserEntries(r, l) = {k}
                            /\ resp[r].users[k].Commits = total

\* An answered request with a failed iteration that is followed by an
\* iteration whose commits are part of the response.
C7_Witness ==
    \E r \in Slots :
        /\ Answered(r)
        /\ \E k, m \in 1..Len(log[r]) :
             /\ k < m
             /\ log[r][k].fetch /\ log[r][k].stats = Nil
             /\ ~NoCommits(log[r][m].stats)
        /\ Len(resp[r].users) > 0

(***************************************************************************)
(* C8.  As claimed: in the response, commits is the sum of the login's     *)
(* commits over the records obtained, and by_repo maps the short name of   *)
(* each repository to the login's commits in that repository.              *)
(***************************************************************************)
C8_ByRepoPerRepository ==
    \A r \in Slots :
        Answered(r) =>
            \A k \in 1..Len(resp[r].users) :
                LET u == resp[r].users[k]
                IN  /\ u.Commits = SumCommits(log[r], u.GhLogin, ReposOf(r))
                    /\ \A repo \in ReposOf(r) \ {""} :
                         MapGet(u.ByRepo, ShortRepo(repo), 0)
                            = SumCommits(log[r], u.GhLogin, {repo})

(***************************************************************************)
(* C8, amended.  commits is the sum of the login's commits over the        *)
(* records obtained, and by_repo maps each short name to the login's       *)
(* commits in all the repositories of the list that have this short name.  *)
(***************************************************************************)
C8_ByRepoPerShortName ==
    \A r \in Slots :
        Answered(r) =>
            \A k \in 1..Len(resp[r].users) :
                LET u == resp[r].users[k]
                    named(short) == {repo \in ReposOf(r) \ {""} : ShortRepo(repo) = short}
                IN  /\ u.Commits = SumCommits(log[r], u.GhLogin, ReposOf(r))
                    /\ DOMAIN u.ByRepo \subseteq {ShortRepo(repo) : repo \in ReposOf(r) \ {""}}
                    /\ \A repo \in ReposOf(r) \ {""} :
                         MapGet(u.ByRepo, ShortRepo(repo), 0)
                            = SumCommits(log[r], u.GhLogin, named(ShortRepo(repo)))

\* A login with commits in two repositories of different short names: its
\* commits are split over two keys of by_repo.
C8_Witness ==
    \E r \in Slots :
        /\ Answered(r)
        /\ \E k \in 1..Len(resp[r].users) :
             /\ Cardinality(DOMAIN resp[r].users[k].ByRepo) = 2
             /\ resp[r].users[k].Commits >= 3

(***************************************************************************)
(* C9.  The per-login totals of a request do not depend on the order of    *)
(* its cells: the request with the repository list and the week sequence   *)
(* permuted ends with the same commits, added, removed and by_repo for     *)
(* every login.                                                            *)
(***************************************************************************)
C9_TotalsOrderIndependent ==
    (fn # Nil /\ fn.op = "merge" /\ fn.at = "loop" /\ RunDone(fn.a) /\ RunDone(fn.b)) =>
        Totals(fn.a.acc) = Totals(fn.b.acc)

(***************************************************************************)
(* C10.  The sorted users list is in descending order of commits: every    *)
(* user has at least as many commits as the next one.                      *)
(***************************************************************************)
C10_SortedByCommitsDescending ==
    (fn # Nil /\ fn.op = "sort" /\ fn.done) =>
        /\ Len(fn.sorted) = Len(fn.users)
        /\ \A k \in 1..(Len(fn.sorted) - 1) :
             fn.sorted[k].Commits >= fn.sorted[k + 1].Commits
        /\ \A k \in 1..Len(fn.users) :
             \E m \in 1..Len(fn.sorted) : fn.sorted[m] = fn.users[k]

\* A list that was in strictly ascending order of commits has been sorted.
C10_Witness ==
    /\ fn # Nil /\ fn.op = "sort" /\ fn.done
    /\ Len(fn.users) >= 3
    /\ \A k \in 1..(Len(fn.users) - 1) :
         fn.users[k].Commits < fn.users[k + 1].Commits

(***************************************************************************)
(* C11.  The sort is stable: two users with equal commits keep, in the     *)
(* sorted list, the relative order they had in the list before the sort.   *)
(***************************************************************************)

\* The position of entry u in the list us.
PositionIn(us, u) == CHOOSE k \in 1..Len(us) : us[k] = u

C11_SortStable ==
    (fn # Nil /\ fn.op = "sort" /\ fn.done) =>
        \A i, j \in 1..Len(fn.users) :
            (i < j /\ fn.users[i].Commits = fn.users[j].Commits) =>
                PositionIn(fn.sorted, fn.users[i]) < PositionIn(fn.sorted, fn.users[j])

(***************************************************************************)
(* C12.  The repos list of a summary holds, once each, exactly the short   *)
(* names of the repositories for which the request obtained a record with  *)
(* a contributor that has commits.                                         *)
(***************************************************************************)

\* The short names of the repositories with commits in the records of lg.
ActiveShortNames(lg) ==
    {ShortRepo(lg[k].repo) : k \in {m \in 1..Len(lg) : ~NoCommits(lg[m].stats)}}

C12_ReposListIsActiveSet ==
    \A r \in Slots :
        Answered(r) =>
            /\ {resp[r].repos[k] : k \in 1..Len(resp[r].repos)} = ActiveShortNames(log[r])
            /\ Len(resp[r].repos) = Cardinality(ActiveShortNames(log[r]))

\* A summary lists one repository and leaves out another repository of the
\* configured list, for which no record with commits was obtained.
C12_Witness ==
    \E r \in Slots :
        /\ Answered(r)
        /\ Len(resp[r].repos) >= 1
        /\ \E repo \in ReposOf(r) \ {""} :
             \A k \in 1..Len(resp[r].repos) : resp[r].repos[k] # ShortRepo(repo)

(***************************************************************************)
(* shortRepo of handleGetStats as a function of the repository identifier. *)
(***************************************************************************)

\* The characters of the identifiers.
IdChars == {"a", "b", "/"}

\* The strings of n characters of chars.
RECURSIVE StringsOver(_, _)
StringsOver(chars, n) ==
    IF n = 0 THEN {""}
    ELSE {s \o c : s \in StringsOver(chars, n - 1), c \in chars}

\* The entries of the repository list, after trimming.
Identifiers == UNION {StringsOver(IdChars, n) : n \in 1..MaxIdLen}

InitShort ==
    /\ InitRest
    /\ \E repo \in Identifiers : fn = [op |-> "short", repo |-> repo, done |-> FALSE]

\* Lines 269-272 on the identifier.
ApplyShortRepo ==
    /\ ~fn.done
    /\ fn' = [op |-> "short", repo |-> fn.repo, done |-> TRUE,
              shortRepo |-> ShortRepo(fn.repo)]
    /\ UNCHANGED <<now, configuration, kv, pc, rq, resp, log, started, ticks,
                   reloads, failures>>

NextShort == ApplyShortRepo

SpecShort == InitShort /\ [][NextShort]_vars

(***************************************************************************)
(* C13.  The short name of a repository identifier is the part after its   *)
(* last "/", the whole identifier when it has none.                        *)
(***************************************************************************)

\* The part of s after its last "/".
RECURSIVE AfterLastSlash(_)
AfterLastSlash(s) ==
    IF StringsIndex(s, "/") < 0 THEN s
    ELSE AfterLastSlash(SubSeq(s, StringsIndex(s, "/") + 2, Len(s)))

C13_ShortNameAfterLastSlash ==
    (fn # Nil /\ fn.op = "short" /\ fn.done) =>
        fn.shortRepo = AfterLastSlash(fn.repo)

(***************************************************************************)
(* The default range of handleGetStats as a function of the clock.         *)
(***************************************************************************)

\* The days of the clock: around the turn of the year of StartDay.
DefaultDays == (Jan1(2027) - MaxDayOffset)..(Jan1(2027) + MaxDayOffset)

InitDefault ==
    /\ InitRest
    /\ \E d \in DefaultDays : fn = [op |-> "default", day |-> d, done |-> FALSE]

\* Lines 236-243 and 261 for a request without week_start and week_end.
ApplyDefaultRange ==
    /\ ~fn.done
    /\ fn' = [op |-> "default", day |-> fn.day, done |-> TRUE,
              weeks |-> getWeeksInRange(DefaultWeekStart(fn.day),
                                        CurrentWeekStr(fn.day))]
    /\ UNCHANGED <<now, configuration, kv, pc, rq, resp, log, started, ticks,
                   reloads, failures>>

NextDefault == ApplyDefaultRange

SpecDefault == InitDefault /\ [][NextDefault]_vars

(***************************************************************************)
(* C14.  Without week_start and week_end the range is five consecutive     *)
(* ISO weeks ending at the current week: the weeks of the days 28, 21, 14, *)
(* 7 and 0 days before the clock, whatever the current week is.            *)
(***************************************************************************)

FiveWeeksEndingAt(d) ==
    <<CurrentWeekStr(d - 28), CurrentWeekStr(d - 21), CurrentWeekStr(d - 14),
      CurrentWeekStr(d - 7), CurrentWeekStr(d)>>

C14_DefaultRangeFiveIsoWeeks ==
    (fn # Nil /\ fn.op = "default" /\ fn.done) =>
        fn.weeks = FiveWeeksEndingAt(fn.day)

(***************************************************************************)
(* C15.  A contributor whose login is mapped to a local id that the local  *)
(* user lookup does not find is listed with the raw login as name, an      *)
(* empty mm_user_id and an empty mm_username.                              *)
(***************************************************************************)

\* Entry e of a response built with the table mappings belongs to a login
\* mapped to an id the lookup does not find.
MappedNotFound(e, mappings) ==
    /\ MapGet(mappings, e.GhLogin, "") # ""
    /\ MapGet(mappings, e.GhLogin, "") \notin DOMAIN MMUsers

C15_LookupFailureGivesEmptyIdentity ==
    \A r \in Slots :
        Answered(r) =>
            \A k \in 1..Len(resp[r].users) :
                MappedNotFound(resp[r].users[k], rq[r].mappings) =>
                    /\ resp[r].users[k].Name = resp[r].users[k].GhLogin
                    /\ resp[r].users[k].MMUserID = ""
                    /\ resp[r].users[k].MMUsername = ""

(***************************************************************************)
(* The identity resolution of handleGetStats as a function of the local    *)
(* user that GetUser returns for the mapped id.                            *)
(***************************************************************************)

\* The local users a mapped id may belong to.  A user has a username.
LocalUsers ==
    [Username : {"ann", "bob"}, FirstName : {"", "Ann", " Ann"},
     LastName : {"", "Lee", "Lee "}, Nickname : {"", "annie"}]

\* The id the login is mapped to.
MappedID == "u1"

InitIdentity ==
    /\ InitRest
    /\ \E user \in LocalUsers, ghLogin \in {"a", "b"} :
          fn = [op |-> "identity", user |-> user, ghLogin |-> ghLogin,
                done |-> FALSE]

\* Lines 300-313 for a login mapped to the id of fn.user.
ApplyResolveUser ==
    /\ ~fn.done
    /\ fn' = [op |-> "identity", user |-> fn.user, ghLogin |-> fn.ghLogin,
              done |-> TRUE,
              id |-> ResolveUserIn([u \in {MappedID} |-> fn.user], fn.ghLogin,
                                   [l \in {fn.ghLogin} |-> MappedID])]
    /\ UNCHANGED <<now, configuration, kv, pc, rq, resp, log, started, ticks,
                   reloads, failures>>

NextIdentity == ApplyResolveUser

SpecIdentity == InitIdentity /\ [][NextIdentity]_vars

(***************************************************************************)
(* C16.  For a mapped login whose local user is found, the name is first   *)
(* name, a space and last name, trimmed, when either is non-empty; else    *)
(* the nickname when non-empty; else the local username; else the local    *)
(* id.                                                                     *)
(***************************************************************************)

DisplayName(user, id) ==
    IF user.FirstName # "" \/ user.LastName # ""
    THEN StringsTrimSpace(user.FirstName \o " " \o user.LastName)
    ELSE IF user.Nickname # "" THEN user.Nickname
    ELSE IF user.Username # "" THEN user.Username
    ELSE id

C16_NameOfFoundUser ==
    (fn # Nil /\ fn.op = "identity" /\ fn.done) =>
        fn.id.Name = DisplayName(fn.user, MappedID)

(***************************************************************************)
(* ServeHTTP with the configuration and mapping endpoints.  fn holds the   *)
(* last exchange that was answered outside handleGetStats: the number n of *)
(* the request, its path, method and Mattermost-User-Id header, the status *)
(* and the body of the answer; hasPosted and posted remember the table of  *)
(* the last POST /api/v1/mappings that was answered with status ok.        *)
(***************************************************************************)

\* The paths of the switch of ServeHTTP, and one path of its default case.
Paths ==
    {"/api/v1/config", "/api/v1/stats", "/api/v1/users",
     "/api/v1/github/contributors", "/api/v1/mattermost/users",
     "/api/v1/mappings", "/api/v1/github/repo/validate",
     "/api/v1/github/all-contributors",
     "/api/v1/github/contributors-with-commits", "/api/v1/other"}

Methods == {"GET", "POST"}

\* The Mattermost-User-Id headers: absent, an admin, a member, an id that
\* GetUser does not find.
CallerIDs == {"", "u1", "u2", "u9"}

\* The users whose roles make IsSystemAdmin true.
SystemAdmins == {"u1"}

\* The bodies of POST /api/v1/mappings: empty, or a JSON object.
PostBodies ==
    {NoText, JsonMarshal([l \in {"a"} |-> "u2"]),
     JsonMarshal([l \in {"b"} |-> "u1"])}

\* The queries of the stats requests served next to the mapping endpoints.
MappingRanges == { <<"2027-W01", "2027-W02">> }

UnauthorizedNever(userID) == FALSE

\* The test of line 142.
Unauthorized(userID) == userID = ""

IsSystemAdminAlways(userID) == TRUE

\* user.IsSystemAdmin() of line 827.
IsSystemAdmin(userID) == userID \in SystemAdmins

\* json.NewDecoder(r.Body).Decode(&mappings) succeeds.
DecodeOk(body) == body # NoText

NoExchange ==
    [op |-> "http", n |-> 0, path |-> "", method |-> "", userID |-> "",
     status |-> 0, body |-> Nil, hasPosted |-> FALSE, posted |-> EmptyMap]

InitMappings == InitRest /\ fn = NoExchange

\* The answer to request number started + 1.
Answer(path, method, userID, status, body) ==
    /\ started < MaxRequests
    /\ started' = started + 1
    /\ fn' = [fn EXCEPT !.n = started + 1, !.path = path, !.method = method,
                        !.userID = userID, !.status = status, !.body = body]

\* ServeHTTP for a request without the header (lines 141-145).
Reject(path, method) ==
    /\ Unauthorized("")
    /\ Answer(path, method, "", 401, Nil)
    /\ UNCHANGED <<now, configuration, kv, pc, rq, resp, log, ticks, reloads,
                   failures>>

\* ServeHTTP for a path of the default case.
NotFound(userID) ==
    /\ ~Unauthorized(userID)
    /\ Answer("/api/v1/other", "GET", userID, 404, Nil)
    /\ UNCHANGED <<now, configuration, kv, pc, rq, resp, log, ticks, reloads,
                   failures>>

\* ServeHTTP and handleGetConfig.
HandleGetConfig(userID) ==
    /\ ~Unauthorized(userID)
    /\ Answer("/api/v1/config", "GET", userID, 200,
              [repositories |-> getConfiguration.Repositories,
               mappings |-> ParseMappings(getConfiguration.UserMappings)])
    /\ UNCHANGED <<now, configuration, kv, pc, rq, resp, log, ticks, reloads,
                   failures>>

\* ServeHTTP and handleGetMappings.
HandleGetMappings(userID) ==
    /\ ~Unauthorized(userID)
    /\ Answer("/api/v1/mappings", "GET", userID, 200,
              ParseMappings(getConfiguration.UserMappings))
    /\ UNCHANGED <<now, configuration, kv, pc, rq, resp, log, ticks, reloads,
                   failures>>

\* The status handleSaveMappings answers with; kvOk: KVSet returns no error.
SaveStatus(userID, body, kvOk) ==
    IF userID \notin DOMAIN MMUsers THEN 500
    ELSE IF ~IsSystemAdmin(userID) THEN 403
    ELSE IF ~DecodeOk(body) THEN 400
    ELSE IF ~kvOk THEN 500
    ELSE 200

\* handleSaveMappings reaches line 842.
SaveReachesConfig(userID, body) ==
    /\ userID \in DOMAIN MMUsers
    /\ IsSystemAdmin(userID)
    /\ DecodeOk(body)

\* Lines 842-843: the object getConfiguration returns gets the new
\* UserMappings; with no configuration loaded that object is a fresh one
\* that nothing else refers to.
SetUserMappings(data) ==
    IF configuration = Nil THEN Nil
    ELSE [configuration EXCEPT !.UserMappings = data]

\* ServeHTTP and handleSaveMappings.
HandleSaveMappings(userID, body, kvOk) ==
    /\ ~Unauthorized(userID)
    /\ kvOk \/ failures < MaxFailures
    /\ started < MaxRequests
    /\ started' = started + 1
    /\ IF SaveReachesConfig(userID, body)
       THEN /\ configuration' = SetUserMappings(JsonMarshal(JsonUnmarshal(body)))
            /\ kv' = IF kvOk
                     THEN KVSet(kv, "user_mappings", JsonMarshal(JsonUnmarshal(body)))
                     ELSE kv
            /\ failures' = IF kvOk THEN failures ELSE failures + 1
            /\ fn' = [op |-> "http", n |-> started + 1,
                      path |-> "/api/v1/mappings", method |-> "POST",
                      userID |-> userID,
                      status |-> SaveStatus(userID, body, kvOk),
                      body |-> Nil,
                      hasPosted |-> IF kvOk THEN TRUE ELSE fn.hasPosted,
                      posted |-> IF kvOk THEN JsonUnmarshal(body) ELSE fn.posted]
       ELSE /\ fn' = [fn EXCEPT !.n = started + 1, !.path = "/api/v1/mappings",
                                !.method = "POST", !.userID = userID,
                                !.status = SaveStatus(userID, body, kvOk),
                                !.body = Nil]
            /\ UNCHANGED <<configuration, kv, failures>>
    /\ UNCHANGED <<now, pc, rq, resp, log, ticks, reloads>>

\* ServeHTTP and the start of handleGetStats.
ServeStats(r, userID, range) ==
    /\ ~Unauthorized(userID)
    /\ HandleGetStats(r, range)

NextMappings ==
    \/ OnConfigurationChange
    \/ \E path \in Paths, method \in Methods : Reject(path, method)
    \/ \E userID \in CallerIDs : NotFound(userID)
    \/ \E userID \in CallerIDs : HandleGetConfig(userID)
    \/ \E userID \in CallerIDs : HandleGetMappings(userID)
    \/ \E userID \in CallerIDs, body \in PostBodies, kvOk \in BOOLEAN :
          HandleSaveMappings(userID, body, kvOk)
    \/ \E r \in Slots, userID \in CallerIDs, range \in MappingRanges :
          ServeStats(r, userID, range)
    \/ \E r \in Slots : GetWeeklyStats(r)
    \/ \E r \in Slots : KVSetStats(r)
    \/ \E r \in Slots : Respond(r)

SpecMappings == InitMappings /\ [][NextMappings]_vars

\* The step answers request number started + 1 outside handleGetStats.
Exchanged == started' = started + 1 /\ fn'.n = started'

(***************************************************************************)
(* C17.  A request without the Mattermost-User-Id header is answered 401   *)
(* on every path, and serving it changes neither the configuration with    *)
(* its mapping table, nor the store, nor any stats request or its log of   *)
(* cache and upstream calls.                                               *)
(***************************************************************************)
C17_NoHeaderRejected ==
    [][(Exchanged /\ fn'.userID = "") =>
          /\ fn'.status = 401
          /\ UNCHANGED <<configuration, kv, pc, rq, resp, log>>]_vars

\* A stats request without the header was rejected while a token and
\* repositories were configured.
C17_Witness ==
    /\ fn.n >= 1
    /\ fn.userID = ""
    /\ fn.status = 401
    /\ fn.path = "/api/v1/stats"
    /\ configuration # Nil
    /\ configuration.GitHubToken = ValidToken

(***************************************************************************)
(* C18.  POST /api/v1/mappings from a user who is not a system admin is    *)
(* answered 403 and changes neither the configuration in memory nor the    *)
(* store.                                                                  *)
(***************************************************************************)
C18_NonAdminPostRejected ==
    [][(/\ Exchanged
        /\ fn'.path = "/api/v1/mappings"
        /\ fn'.method = "POST"
        /\ fn'.userID \in DOMAIN MMUsers \ SystemAdmins) =>
          /\ fn'.status = 403
          /\ configuration' = configuration
          /\ kv' = kv]_vars

\* A member's POST was rejected after an admin's POST had been stored.
C18_Witness ==
    /\ fn.path = "/api/v1/mappings"
    /\ fn.method = "POST"
    /\ fn.userID \in DOMAIN MMUsers \ SystemAdmins
    /\ fn.status = 403
    /\ fn.hasPosted
    /\ "user_mappings" \in DOMAIN kv

(***************************************************************************)
(* C19.  Once a POST /api/v1/mappings has been answered with status ok,    *)
(* every later GET /api/v1/mappings and GET /api/v1/config returns, and    *)
(* every later stats request uses, the table of the last such POST,        *)
(* whether or not a configuration was loaded and across reloads.           *)
(***************************************************************************)
C19_MappingRoundTrip ==
    [][(started' = started + 1 /\ fn.hasPosted) =>
          /\ (/\ fn'.n = started'
              /\ fn'.path = "/api/v1/mappings"
              /\ fn'.method = "GET"
              /\ fn'.status = 200) => fn'.body = fn.posted
          /\ (/\ fn'.n = started'
              /\ fn'.path = "/api/v1/config"
              /\ fn'.status = 200) => fn'.body.mappings = fn.posted
          /\ \A r \in Slots :
                (fn'.n # started' /\ rq'[r] # rq[r] /\ rq'[r] # NoRq) =>
                    rq'[r].mappings = fn.posted]_vars

(***************************************************************************)
(* C20.  The shared configuration changes only when OnConfigurationChange  *)
(* swaps in a newly loaded one: no request handler changes the             *)
(* configuration that other requests read.                                 *)
(***************************************************************************)
C20_ConfigurationOnlySwapped ==
    [][configuration' # configuration => reloads' = reloads + 1]_vars

(***************************************************************************)
(* The date window of fetchWeekFromGitHub as a function of the week label. *)
(***************************************************************************)

\* The number of ISO weeks of a year: Dec 28 lies in its last week.
WeeksInYear(year) == ISOWeek(Jan1(year + 1) - 4).week

LabelYears == (2027 - MaxYearSpan)..2027

\* The labels of the ISO weeks of LabelYears.
WeekLabels ==
    {FormatWeek(y, w) : y \in LabelYears, w \in 1..53} \
        {FormatWeek(y, 53) : y \in {z \in LabelYears : WeeksInYear(z) = 52}}

InitWindow ==
    /\ InitRest
    /\ \E week \in WeekLabels : fn = [op |-> "window", week |-> week, done |-> FALSE]

\* Lines 413-414: startDate and endDate of the upstream query.
ApplyFetchWindow ==
    /\ ~fn.done
    /\ fn' = [op |-> "window", week |-> fn.week, done |-> TRUE,
              startDate |-> weekToDate(fn.week),
              endDate |-> weekToDate(fn.week) + 7]
    /\ UNCHANGED <<now, configuration, kv, pc, rq, resp, log, started, ticks,
                   reloads, failures>>

SpecWindow == InitWindow /\ [][ApplyFetchWindow]_vars

(***************************************************************************)
(* C21.  For every ISO week label the window sent upstream starts at the   *)
(* Monday of that ISO week (the week whose ISO year and number are those   *)
(* of the label) and ends 7 days later.                                    *)
(***************************************************************************)
C21_WindowIsIsoWeek ==
    (fn # Nil /\ fn.op = "window" /\ fn.done) =>
        /\ Weekday(fn.startDate) = 1
        /\ FormatWeek(ISOWeek(fn.startDate).year, ISOWeek(fn.startDate).week) = fn.week
        /\ fn.endDate = fn.startDate + 7

(***************************************************************************)
(* nextWeek as a function of the label it is called with.                  *)
(***************************************************************************)

\* The labels getWeeksInRange passes to nextWeek: the ISO weeks, and the
\* labels the default week_start of line 241 takes in the weeks 1 to 4.
NextLabels == WeekLabels \cup {FormatWeek(y, w) : y \in LabelYears, w \in -3..0}

InitNext ==
    /\ InitRest
    /\ \E week \in NextLabels : fn = [op |-> "next", week |-> week, done |-> FALSE]

\* Lines 364-379.
ApplyNextWeek ==
    /\ ~fn.done
    /\ fn' = [op |-> "next", week |-> fn.week, done |-> TRUE,
              next |-> nextWeek(fn.week)]
    /\ UNCHANGED <<now, configuration, kv, pc, rq, resp, log, started, ticks,
                   reloads, failures>>

SpecNext == InitNext /\ [][ApplyNextWeek]_vars

(***************************************************************************)
(* C22.  The label nextWeek returns has a week number from 1 to the number *)
(* of ISO weeks of its year (so W53 only in a 53-week year), and it is     *)
(* either the next number in the same year or week 1 of the next year.     *)
(***************************************************************************)
C22_NextWeekValid ==
    (fn # Nil /\ fn.op = "next" /\ fn.done) =>
        /\ ScanWeek(fn.next).wn >= 1
        /\ ScanWeek(fn.next).wn <= WeeksInYear(ScanWeek(fn.next).year)
        /\ \/ /\ ScanWeek(fn.next).year = ScanWeek(fn.week).year
              /\ ScanWeek(fn.next).wn = ScanWeek(fn.week).wn + 1
           \/ /\ ScanWeek(fn.next).year = ScanWeek(fn.week).year + 1
              /\ ScanWeek(fn.next).wn = 1

(***************************************************************************)
(* getWeeksInRange as a function of week_start and week_end.               *)
(***************************************************************************)

\* The Monday that begins ISO week wn of year: week 1 contains Jan 4.
IsoMonday(year, wn) ==
    Jan1(year) + 3 - ((Weekday(Jan1(year) + 3) + 6) % 7) + (wn - 1) * 7

\* The label of the ISO week k weeks after the ISO week of label week.
WeeksAfter(week, k) ==
    CurrentWeekStr(IsoMonday(ScanWeek(week).year, ScanWeek(week).wn) + 7 * k)

InitRange ==
    /\ InitRest
    /\ \E start \in WeekLabels, k \in -2..MaxWeekDistance :
          fn = [op |-> "range", start |-> start, end |-> WeeksAfter(start, k),
                distance |-> k, done |-> FALSE]

\* Lines 353-361.
ApplyWeeksInRange ==
    /\ ~fn.done
    /\ fn' = [op |-> "range", start |-> fn.start, end |-> fn.end,
              distance |-> fn.distance, done |-> TRUE,
              weeks |-> getWeeksInRange(fn.start, fn.end)]
    /\ UNCHANGED <<now, configuration, kv, pc, rq, resp, log, started, ticks,
                   reloads, failures>>

SpecRange == InitRange /\ [][ApplyWeeksInRange]_vars

(***************************************************************************)
(* C23.  For ISO week labels a and b, getWeeksInRange(a, b) is empty when  *)
(* a is after b in label order; otherwise it is strictly increasing,       *)
(* starts at a, ends at b and has as many labels as the number of calendar *)
(* weeks from a to b plus 1, also across a year boundary.                  *)
(***************************************************************************)
C23_RangeOfIsoWeeks ==
    (fn # Nil /\ fn.op = "range" /\ fn.done) =>
        IF ~StrLeq(fn.start, fn.end)
        THEN fn.weeks = <<>>
        ELSE /\ Len(fn.weeks) = fn.distance + 1
             /\ fn.weeks[1] = fn.start
             /\ fn.weeks[Len(fn.weeks)] = fn.end
             /\ \A i \in 1..(Len(fn.weeks) - 1) :
                   /\ StrLeq(fn.weeks[i], fn.weeks[i + 1])
                   /\ fn.weeks[i] # fn.weeks[i + 1]

\* A range that runs from 2026 over W53 into 2027.
C23_Witness ==
    /\ fn # Nil
    /\ fn.op = "range"
    /\ fn.done
    /\ Len(fn.weeks) >= 3
    /\ fn.weeks[2] = "2026-W53"
    /\ fn.weeks[3] = "2027-W01"

(***************************************************************************)
(* The loop of getWeeksInRange, one iteration per step, for the week_start *)
(* and week_end strings of a request.  fn holds current and weeks.         *)
(***************************************************************************)

\* week_start: an ISO week of 2026 or 2027, or a string that is no label;
\* week_end: labels, a label with a one-digit week, and strings that are
\* no labels.
InitLoop ==
    /\ InitRest
    /\ \E start \in {FormatWeek(2026, w) : w \in 1..53}
                       \cup {FormatWeek(2027, w) : w \in 1..52} \cup {"x"},
          end \in {"2027-W03", "2026-W01", "2027-W9", "2028", "z"} :
          fn = [op |-> "loop", start |-> start, end |-> end, current |-> start,
                weeks |-> <<>>, done |-> FALSE]

\* One iteration (lines 356-358).  Bound of the exploration: the loop is
\* followed for MaxIterations iterations.
LoopStep ==
    /\ ~fn.done
    /\ StrLeq(fn.current, fn.end)
    /\ Len(fn.weeks) < MaxIterations
    /\ fn' = [fn EXCEPT !.weeks = Append(@, fn.current),
                        !.current = nextWeek(fn.current)]
    /\ UNCHANGED <<now, configuration, kv, pc, rq, resp, log, started, ticks,
                   reloads, failures>>

\* The test of line 356 fails: return weeks.
LoopExit ==
    /\ ~fn.done
    /\ ~StrLeq(fn.current, fn.end)
    /\ fn' = [fn EXCEPT !.done = TRUE]
    /\ UNCHANGED <<now, configuration, kv, pc, rq, resp, log, started, ticks,
                   reloads, failures>>

NextLoop == LoopStep \/ LoopExit

SpecLoop == InitLoop /\ [][NextLoop]_vars

(***************************************************************************)
(* C24.  The week list of a request is finite, bounded by the calendar     *)
(* distance of its range: for every week_start and week_end the loop has   *)
(* appended at most as many labels as there are weeks from the week that   *)
(* week_start is read as to the week that week_end is read as.             *)
(***************************************************************************)

\* The weeks from the week label a is read as to the week label b is read
\* as, both included; 0 when b is before a.
WeeksBetween(a, b) ==
    IF IsoMonday(ScanWeek(b).year, ScanWeek(b).wn)
          < IsoMonday(ScanWeek(a).year, ScanWeek(a).wn)
    THEN 0
    ELSE (IsoMonday(ScanWeek(b).year, ScanWeek(b).wn)
            - IsoMonday(ScanWeek(a).year, ScanWeek(a).wn)) \div 7 + 1

C24_WeekListBounded ==
    (fn # Nil /\ fn.op = "loop") =>
        Len(fn.weeks) <= WeeksBetween(fn.start, fn.end)

(***************************************************************************)
(* getWeeklyStats and fetchWeekFromGitHub on a week parameter of any form: *)
(* the cache key and the window of the upstream query they build.          *)
(***************************************************************************)

\* The week parameters, label or not.
AnyLabels == UNION {StringsOver({"7", "-", "W", "x"}, n) : n \in 1..MaxLabelLen}

InitLabel ==
    /\ InitRest
    /\ \E week \in AnyLabels : fn = [op |-> "label", week |-> week, done |-> FALSE]

\* Line 383 and lines 413-423 for repository a/x: nextWeek and weekToDate
\* return no error; cacheKeys and queries are the keys and the upstream
\* queries built, from what Sscanf left in year and week.
ApplyLabel ==
    /\ ~fn.done
    /\ fn' = [op |-> "label", week |-> fn.week, done |-> TRUE,
              cacheKeys |-> {CacheKey("a/x", fn.week)},
              queries |-> {[since |-> weekToDate(fn.week),
                            until |-> weekToDate(fn.week) + 7]},
              next |-> nextWeek(fn.week)]
    /\ UNCHANGED <<now, configuration, kv, pc, rq, resp, log, started, ticks,
                   reloads, failures>>

SpecLabel == InitLabel /\ [][ApplyLabel]_vars

(***************************************************************************)
(* C25.  A week label that is malformed (not digits, "-W", digits) is      *)
(* rejected: no cache key and no upstream query is built from it.          *)
(***************************************************************************)

\* s is digits, "-W", digits.
WellFormed(s) ==
    /\ DigitsEnd(s, 1) > 1
    /\ DigitsEnd(s, 1) + 2 <= Len(s)
    /\ SubSeq(s, DigitsEnd(s, 1), DigitsEnd(s, 1) + 1) = "-W"
    /\ DigitsEnd(s, DigitsEnd(s, 1) + 2) = Len(s) + 1

C25_MalformedLabelRejected ==
    (fn # Nil /\ fn.op = "label" /\ fn.done /\ ~WellFormed(fn.week)) =>
        /\ fn.cacheKeys = {}
        /\ fn.queries = {}

(***************************************************************************)
(* handleGetContributorsWithCommits: the grouping of the commits upstream  *)
(* lists for one repository (lines 957-1003).                              *)
(***************************************************************************)

RECURSIVE Repeat(_, _)
Repeat(c, n) == IF n = 0 THEN "" ELSE Repeat(c, n - 1) \o c

\* The commits upstream may list; Login "" stands for a commit without
\* author.  The messages: one line, a subject and a body, a message that
\* begins with a line break, a line of 81 characters.
ListedCommits ==
    { [SHA |-> "0123456789abcdef", Message |-> m, Date |-> "2027-01-05T10:00:00Z",
       Login |-> "a"] : m \in {"fix", "fix\nbody", "\nfix", Repeat("m", 81)} }
    \cup { [SHA |-> "89abcdef01234567", Message |-> "fix",
            Date |-> "2027-01-06T10:00:00Z", Login |-> "b"],
           [SHA |-> "abc", Message |-> "fix", Date |-> "2027", Login |-> "a"],
           [SHA |-> "fedcba9876543210", Message |-> "fix",
            Date |-> "2027-01-07T10:00:00Z", Login |-> ""] }

\* Lines 977-981.
TruncateMessage(msg) ==
    IF StringsIndex(msg, "\n") > 0 THEN SubSeq(msg, 1, StringsIndex(msg, "\n")) ELSE msg

\* Lines 982-984.
Ellipsize(msg) == IF Len(msg) > 80 THEN SubSeq(msg, 1, 77) \o "..." ELSE msg

\* Lines 986-994.
Prefix(s, n) == IF Len(s) > n THEN SubSeq(s, 1, n) ELSE s

\* The ContributorCommit appended for commit c (lines 977-1000).
Retained(c) ==
    [SHA |-> Prefix(c.SHA, 7),
     Message |-> Ellipsize(TruncateMessage(c.Message)),
     Date |-> Prefix(c.Date, 10)]

\* authorCommits after the commits from position i on (lines 957-1003).
RECURSIVE GroupFrom(_, _, _)
GroupFrom(commits, i, authorCommits) ==
    IF i > Len(commits) THEN authorCommits
    ELSE IF commits[i].Login = "" THEN GroupFrom(commits, i + 1, authorCommits)
    ELSE IF Len(MapGet(authorCommits, commits[i].Login, <<>>)) >= 3
         THEN GroupFrom(commits, i + 1, authorCommits)
    ELSE GroupFrom(commits, i + 1,
             [l \in DOMAIN authorCommits \cup {commits[i].Login} |->
                 IF l = commits[i].Login
                 THEN Append(MapGet(authorCommits, l, <<>>), Retained(commits[i]))
                 ELSE authorCommits[l]])

InitCommits ==
    /\ InitRest
    /\ \E commits \in SeqsUpTo(ListedCommits, MaxListed) :
          fn = [op |-> "commits", commits |-> commits, done |-> FALSE]

ApplyGroupCommits ==
    /\ ~fn.done
    /\ fn' = [op |-> "commits", commits |-> fn.commits, done |-> TRUE,
              authorCommits |-> GroupFrom(fn.commits, 1, EmptyMap)]
    /\ UNCHANGED <<now, configuration, kv, pc, rq, resp, log, started, ticks,
                   reloads, failures>>

SpecCommits == InitCommits /\ [][ApplyGroupCommits]_vars

(***************************************************************************)
(* C26.  Every login's entry for a repository holds at most 3 commits, the *)
(* first 3 of that author in upstream order; each has a sha of at most 7   *)
(* characters, a message without line break of at most 80 characters and  *)
(* a date of at most 10 characters.                                        *)
(***************************************************************************)

\* The commits of login l in the upstream list, in order.
CommitsOf(commits, l) == SelectSeq(commits, LAMBDA c : c.Login = l)

C26_RetainedCommits ==
    (fn # Nil /\ fn.op = "commits" /\ fn.done) =>
        \A l \in DOMAIN fn.authorCommits :
            /\ Len(fn.authorCommits[l]) <= 3
            /\ Len(fn.authorCommits[l]) <= Len(CommitsOf(fn.commits, l))
            /\ \A k \in 1..Len(fn.authorCommits[l]) :
                  /\ fn.authorCommits[l][k].SHA
                        = Prefix(CommitsOf(fn.commits, l)[k].SHA, 7)
                  /\ Len(fn.authorCommits[l][k].SHA) <= 7
                  /\ StringsIndex(fn.authorCommits[l][k].Message, "\n") < 0
                  /\ Len(fn.authorCommits[l][k].Message) <= 80
                  /\ Len(fn.authorCommits[l][k].Date) <= 10

(***************************************************************************)
(* The cache key of getWeeklyStats as a function of (repository, week).    *)
(***************************************************************************)

\* The cells of two calls of getWeeklyStats.
InitKey ==
    /\ InitRest
    /\ \E repo1 \in MergeRepos, week1 \in {"2026-W53", "2027-W01"},
          repo2 \in MergeRepos, week2 \in {"2026-W53", "2027-W01"} :
          fn = [op |-> "key", repo1 |-> repo1, week1 |-> week1,
                repo2 |-> repo2, week2 |-> week2, done |-> FALSE]

\* Line 383 in both calls.
ApplyCacheKey ==
    /\ ~fn.done
    /\ fn' = [fn EXCEPT !.done = TRUE] @@
              [cacheKey1 |-> CacheKey(fn.repo1, fn.week1),
               cacheKey2 |-> CacheKey(fn.repo2, fn.week2)]
    /\ UNCHANGED <<now, configuration, kv, pc, rq, resp, log, started, ticks,
                   reloads, failures>>

SpecKey == InitKey /\ [][ApplyCacheKey]_vars

(***************************************************************************)
(* C27.  Two different (repository, week) pairs never have the same cache  *)
(* key.                                                                    *)
(***************************************************************************)
C27_CacheKeysDistinct ==
    (fn # Nil /\ fn.op = "key" /\ fn.done) =>
        ((fn.repo1 # fn.repo2 \/ fn.week1 # fn.week2) =>
            fn.cacheKey1 # fn.cacheKey2)

(***************************************************************************)
(* C28.  Every record written to the cache was fetched for a window of 7   *)
(* days that had completely elapsed on the day of the fetch: the window's  *)
(* end, weekToDate(week) + 7, is not after that day.                       *)
(***************************************************************************)
C28_CachedWindowElapsed ==
    \A r \in Slots :
        Admitted(r) =>
            \A k \in 1..Len(log[r]) :
                log[r][k].put =>
                    weekToDate(log[r][k].week) + 7 <= log[r][k].stats.FetchedAt

(***************************************************************************)
(* C29.  In the totals of a request a login has at most as many commits as *)
(* upstream reports for it in the distinct (repository, week) cells of the *)
(* request, also when a repository is named more than once.                *)
(***************************************************************************)

\* The distinct (repository, week) cells of the lists repos and weeks.
DistinctCells(repos, weeks) ==
    {<<StringsTrimSpace(repos[i]), weeks[j]>> :
        i \in {k \in 1..Len(repos) : StringsTrimSpace(repos[k]) # ""},
        j \in 1..Len(weeks)}

\* The commits of login l upstream lists for a cell on day today.
ReportedIn(cell, l, today) ==
    Cardinality({c \in ListCommits(cell[1], weekToDate(cell[2]), today) :
                    c.login = l})

RECURSIVE ReportedSum(_, _, _)
ReportedSum(cells, l, today) ==
    IF cells = {} THEN 0
    ELSE ReportedIn(CHOOSE c \in cells : TRUE, l, today)
           + ReportedSum(cells \ {CHOOSE c \in cells : TRUE}, l, today)

C29_CellCountedOnce ==
    (fn # Nil /\ fn.op = "merge" /\ fn.at = "loop" /\ RunDone(fn.a)) =>
        \A l \in DOMAIN fn.a.acc.userCommits :
            fn.a.acc.userCommits[l]
                <= ReportedSum(DistinctCells(fn.a.repos, fn.a.weeks), l, now)

(***************************************************************************)
(* C30.  A POST /api/v1/mappings of an admin that is answered 500 because  *)
(* the table could not be saved leaves the configuration in memory, and so *)
(* the mapping later requests use, unchanged.                              *)
(***************************************************************************)
C30_FailedSaveChangesNothing ==
    [][(/\ Exchanged
        /\ fn'.path = "/api/v1/mappings"
        /\ fn'.method = "POST"
        /\ fn'.userID \in SystemAdmins
        /\ fn'.status = 500) =>
          /\ configuration' = configuration
          /\ ParseMappings(getConfiguration.UserMappings)'
                = ParseMappings(getConfiguration.UserMappings)]_vars

====
